---- MODULE Spec2Model ----
(***************************************************************************)
(* RunMeter (hydroflow_app6.0).                                            *)
(*                                                                         *)
(* streamlit_app.py : the runoff page.  A CSV is uploaded, a method is     *)
(*   chosen with a radio control and the "Calculate Runoff" button runs    *)
(*   the handler of lines 16-48 over whole pandas columns.                 *)
(* home.py : the home page.  Lines 127-153 resolve the map centre from     *)
(*   geocode_city (lines 27-43) or ip_lookup (lines 11-25).                *)
(*                                                                         *)
(* Numbers.  pandas computes in IEEE doubles.  The model keeps the float   *)
(* special values (nan, +inf, -inf) and the division-by-zero rules of      *)
(* numpy, and represents every finite value as an exact reduced fraction;  *)
(* the literals 0.2, 0.8 and 0.278 are 1/5, 4/5 and 139/500.  Series.round *)
(* (2) is round-half-to-even on the value times 100.  Cell values are      *)
(* integers.                                                               *)
(***************************************************************************)
EXTENDS Integers, Sequences, FiniteSets, TLC

\* ---------------------------------------------------------------- bounds
\* Largest number of data rows of an uploaded CSV (runoff page).
MaxRows == 2
\* Largest number of data rows in the two-run comparison specification.
MaxPairRows == 2

\* ------------------------------------------------------------ float values
Abs(i) == IF i < 0 THEN -i ELSE i

RECURSIVE Gcd(_, _)
Gcd(a, b) == IF b = 0 THEN a ELSE Gcd(b, a % b)

NaN == [k |-> "nan", n |-> 0, d |-> 1]
Inf(s) == [k |-> "inf", n |-> s, d |-> 1]

\* The finite value n/d (d # 0), reduced, with a positive denominator.
Frac(n, d) ==
    LET g == Gcd(Abs(n), Abs(d))
        s == IF d < 0 THEN -1 ELSE 1
    IN  [k |-> "num", n |-> (s * n) \div g, d |-> (s * d) \div g]

Num(i) == [k |-> "num", n |-> i, d |-> 1]

Sign(v) == IF v.n > 0 THEN 1 ELSE IF v.n < 0 THEN -1 ELSE 0

Neg(v) == IF v.k = "nan" THEN NaN ELSE [v EXCEPT !.n = -v.n]

\* float addition
Add(a, b) ==
    CASE a.k = "nan" \/ b.k = "nan" -> NaN
      [] a.k = "inf" /\ b.k = "inf" -> IF a.n = b.n THEN a ELSE NaN
      [] a.k = "inf" -> a
      [] b.k = "inf" -> b
      [] OTHER -> LET g == Gcd(a.d, b.d)
                  IN  Frac(a.n * (b.d \div g) + b.n * (a.d \div g), (a.d \div g) * b.d)

Sub(a, b) == Add(a, Neg(b))

\* float multiplication (cross-reduced before multiplying)
Mul(a, b) ==
    CASE a.k = "nan" \/ b.k = "nan" -> NaN
      [] a.k = "inf" \/ b.k = "inf" ->
            IF Sign(a) * Sign(b) = 0 THEN NaN ELSE Inf(Sign(a) * Sign(b))
      [] OTHER -> LET g1 == Gcd(Abs(a.n), b.d)
                      g2 == Gcd(Abs(b.n), a.d)
                  IN  Frac((a.n \div g1) * (b.n \div g2), (a.d \div g2) * (b.d \div g1))

\* float division as numpy does it: x/0 is +-inf, 0/0 is nan, no exception
Div(a, b) ==
    CASE a.k = "nan" \/ b.k = "nan" -> NaN
      [] a.k = "inf" /\ b.k = "inf" -> NaN
      [] a.k = "inf" -> Inf(IF Sign(b) < 0 THEN -a.n ELSE a.n)
      [] b.k = "inf" -> Num(0)
      [] b.n = 0 -> IF a.n = 0 THEN NaN ELSE Inf(Sign(a))
      [] OTHER -> Mul(a, Frac(b.d, b.n))

\* a <= b, false when either side is nan (IEEE comparison)
Leq(a, b) ==
    CASE a.k = "nan" \/ b.k = "nan" -> FALSE
      [] a.k = "inf" -> a.n < 0 \/ (b.k = "inf" /\ b.n > 0)
      [] b.k = "inf" -> b.n > 0
      [] OTHER -> a.n * b.d <= b.n * a.d

\* Series.round(2): nearest multiple of 1/100, ties to the even multiple;
\* nan and inf are left as they are.
Round2(v) ==
    IF v.k # "num" THEN v
    ELSE LET q   == v.n \div v.d
             r   == v.n % v.d
             h   == (r * 100) \div v.d
             rem == (r * 100) % v.d
             c   == q * 100 + h
             up  == 2 * rem > v.d \/ (2 * rem = v.d /\ c % 2 = 1)
         IN  Frac(IF up THEN c + 1 ELSE c, 100)

\* The value h/100
Hundredths(h) == Frac(h, 100)

\* ------------------------------------------------------- the runoff page
ColRainfall == "Rainfall (mm)"
ColCN == "Curve Number"
ColArea == "Area (sq.km)"
AllCols == {ColRainfall, ColCN, ColArea}

MethodSCS == "SCS CN Method"
MethodStrange == "Strange Method"
Methods == <<MethodSCS, MethodStrange>>

\* One CSV row: a cell for each column of the header.
Row(p, c, a) == (ColRainfall :> p) @@ (ColCN :> c) @@ (ColArea :> a)

\* Rows an uploaded file may carry: every combination of three rainfalls and
\* two curve numbers in range, and one row for each way of being out of
\* range (rainfall 0, curve number 0, curve number 200, area 0).
InputRows ==
    {Row(p, c, 10) : p \in {5, 10, 50}, c \in {70, 80}}
        \cup {Row(0, 80, 10), Row(50, 0, 10), Row(10, 200, 10), Row(50, 80, 0)}

\* Headers of the files uploaded: complete, no curve number, no area.
ColSets == {AllCols, AllCols \ {ColCN}, AllCols \ {ColArea}}

\* The rows of a file whose header is cols
RowsOver(cols) == {[c \in cols |-> r[c]] : r \in InputRows}

\* pd.read_csv: a table is its header and its rows, in file order.
TablesOver(cols, rowset, maxlen) ==
    {[cols |-> cols, rows |-> rs] :
        rs \in UNION {[1..n -> rowset] : n \in 0..maxlen}}

UploadTables == UNION {TablesOver(cs, RowsOver(cs), MaxRows) : cs \in ColSets}

NoFile == [cols |-> {}, rows |-> <<>>]

VARIABLES
    uploaded,   \* uploaded_file is truthy
    data,       \* the DataFrame read from the upload
    method,     \* the radio selection
    shown,      \* "none", "result" (table and download shown) or "error"
    result,     \* the result DataFrame, a sequence of rows
    errKey,     \* the column named by the KeyError, "" if none
    last        \* history: the last run that displayed a result

runoffVars == <<uploaded, data, method, shown, result, errKey, last>>

\* (variant) the curve number is read only where the method uses it
ReadKeysByMethod(m) ==
    IF m = MethodSCS THEN <<ColRainfall, ColCN, ColArea>>
    ELSE <<ColRainfall, ColArea>>

\* Lines 18-20 read the three columns in this order, for either method.
ReadKeys(m) == <<ColRainfall, ColCN, ColArea>>

\* data[key] raises KeyError for the first key read that the header lacks.
MissingKey(t, m) ==
    LET ks == ReadKeys(m)
        missing == {i \in 1..Len(ks) : ks[i] \notin t.cols}
    IN  IF missing = {} THEN ""
        ELSE ks[CHOOSE i \in missing : \A j \in missing : i <= j]

\* data[key] as a Series of floats
Column(t, key) == [i \in 1..Len(t.rows) |-> Num(t.rows[i][key])]

\* (variant) the retention of the first row used for every row
SFirstRow(CN) ==
    [i \in DOMAIN CN |-> Sub(Div(Num(25400), CN[1]), Num(254))]

\* line 23: S = (25400 / CN) - 254
S(CN) == [i \in DOMAIN CN |-> Sub(Div(Num(25400), CN[i]), Num(254))]

\* line 24: Q = ((rainfall - 0.2 * S) ** 2) / (rainfall + 0.8 * S)
QSCS(rainfall, Sv) ==
    [i \in DOMAIN rainfall |->
        LET x == Sub(rainfall[i], Mul(Frac(1, 5), Sv[i]))
        IN  Div(Mul(x, x), Add(rainfall[i], Mul(Frac(4, 5), Sv[i])))]

\* (variant) the volume taken from the depth already rounded for display
VolumeFromRoundedQ(Qv, area) ==
    [i \in DOMAIN Qv |-> Mul(Mul(Round2(Qv[i]), area[i]), Num(1000))]

\* line 25: runoff_volume = Q * area * 1000
VolumeSCS(Qv, area) ==
    [i \in DOMAIN Qv |-> Mul(Mul(Qv[i], area[i]), Num(1000))]

\* line 28: runoff_volume = rainfall * area * 0.278
VolumeStrange(rainfall, area) ==
    [i \in DOMAIN rainfall |-> Mul(Mul(rainfall[i], area[i]), Frac(139, 500))]

\* line 29: Q = runoff_volume / area
QStrange(runoff_volume, area) ==
    [i \in DOMAIN runoff_volume |-> Div(runoff_volume[i], area[i])]

\* (variant) the output table built from the second row on
FrameSkipFirst(rainfall, Qv, runoff_volume) ==
    [i \in 1..(Len(rainfall) - 1) |->
        [rainfall |-> Round2(rainfall[i + 1]),
         runoff   |-> Round2(Qv[i + 1]),
         volume   |-> Round2(runoff_volume[i + 1])]]

\* lines 32-36: the three output columns, each rounded to 2 decimals
Frame(rainfall, Qv, runoff_volume) ==
    [i \in DOMAIN rainfall |->
        [rainfall |-> Round2(rainfall[i]),
         runoff   |-> Round2(Qv[i]),
         volume   |-> Round2(runoff_volume[i])]]

\* lines 18-36 on a table that has the three columns
ResultFrame(t, m) ==
    LET rainfall == Column(t, ColRainfall)
        CN       == Column(t, ColCN)
        area     == Column(t, ColArea)
    IN  IF m = MethodSCS
        THEN LET Qv == QSCS(rainfall, S(CN))
             IN  Frame(rainfall, Qv, VolumeSCS(Qv, area))
        ELSE LET vol == VolumeStrange(rainfall, area)
             IN  Frame(rainfall, QStrange(vol, area), vol)

\* The handler keeps no list of per-row errors: its only error channel is
\* the except clause of lines 46-48, which ends the whole request.
RowErrors(t, m) == << >>

NoRun == [method |-> "", rows |-> <<>>, result |-> <<>>]

\* lines 7-12: a file is chosen in the empty uploader; the script reruns with
\* the button unpressed, so no calculation is displayed.  (Replacing a file
\* reaches the same page states as removing it and choosing the new one,
\* followed by SelectMethod where the radio kept its selection.)
Upload(t) ==
    /\ ~uploaded
    /\ uploaded' = TRUE
    /\ data' = t
    /\ shown' = "none"
    /\ result' = <<>>
    /\ errKey' = ""
    /\ UNCHANGED method

\* line 49-50: the file is removed; the radio is no longer rendered and
\* returns to its first option when it is rendered again.
RemoveFile ==
    /\ uploaded
    /\ uploaded' = FALSE
    /\ data' = NoFile
    /\ method' = Methods[1]
    /\ shown' = "none"
    /\ result' = <<>>
    /\ errKey' = ""

\* line 14: the radio selection changes; rerun with the button unpressed.
SelectMethod(m) ==
    /\ uploaded
    /\ m # method
    /\ method' = m
    /\ shown' = "none"
    /\ result' = <<>>
    /\ errKey' = ""
    /\ UNCHANGED <<uploaded, data>>

\* lines 16-48: the "Calculate Runoff" button.
CalculateRunoff ==
    /\ uploaded
    /\ IF MissingKey(data, method) # ""
       THEN /\ shown' = "error"
            /\ errKey' = MissingKey(data, method)
            /\ result' = <<>>
       ELSE /\ shown' = "result"
            /\ errKey' = ""
            /\ result' = ResultFrame(data, method)
    /\ UNCHANGED <<uploaded, data, method>>

\* History: the displayed run is remembered when the page leaves it.
Remember ==
    last' = IF shown = "result"
            THEN [method |-> method, rows |-> data.rows, result |-> result]
            ELSE last

\* --------------------------------------------------------- the home page
\* A place name is the sequence of its non-empty parts (the display name is
\* ", ".join of them); the empty sequence stands for both None and "".
India == [city |-> <<"India">>, lat |-> 21, lon |-> 78]

\* What the sidebar text input may hold, and str.strip() of it.
Queries == {"", "  ", "Chennai", " Chennai "}
Strip(q) == IF q \in {"", "  "} THEN "" ELSE "Chennai"
Cities == {Strip(q) : q \in Queries} \ {""}

\* st.secrets["openweather"]["api_key"]: absent (None), empty or set.
Keys == {"None", "", "key"}
Truthy(key) == key \notin {"None", ""}

\* What https://ipinfo.io/json may answer.  kind: the request raised, the
\* status is not OK, the body is not JSON, or a JSON object with an optional
\* city and a loc that is missing, "28,77", one number only, or not numeric.
IpResponses ==
    {[kind |-> k, city |-> "", loc |-> "missing"] : k \in {"raised", "notok", "badjson"}}
        \cup [kind : {"ok"}, city : {"", "Delhi"},
              loc : {"missing", "good", "short", "garbage"}]
NoIpRequest == [kind |-> "none", city |-> "", loc |-> "missing"]

\* What the geocoding endpoint may answer: as above, or a JSON list that is
\* empty or whose first entry has optional name, country and lat.
GeoResponses ==
    {[kind |-> k, name |-> "", country |-> "", hasLat |-> FALSE] :
        k \in {"raised", "notok", "badjson", "empty"}}
        \cup [kind : {"ok"}, name : {"", "Chennai"}, country : {"", "IN"},
              hasLat : BOOLEAN]

NoIp == [called |-> FALSE, city |-> <<>>, lat |-> 0, lon |-> 0]
NoGeo == [called |-> FALSE, found |-> FALSE, lat |-> 0, lon |-> 0, display |-> <<>>]

\* home.py 12-25: the body of ip_lookup on the response r
ip_lookup(r) ==
    IF r.kind = "ok" /\ r.loc \in {"missing", "good"}
    THEN [called |-> TRUE,
          city |-> IF r.city # "" THEN <<r.city>> ELSE <<"Unknown">>,
          lat |-> IF r.loc = "good" THEN 28 ELSE 20,
          lon |-> IF r.loc = "good" THEN 77 ELSE 0]
    ELSE [called |-> TRUE, city |-> India.city, lat |-> India.lat, lon |-> India.lon]

\* home.py 28-43: the body of geocode_city on the response r; found = FALSE
\* is the return value None
geocode_city(r) ==
    IF r.kind = "ok" /\ r.hasLat
    THEN [called |-> TRUE, found |-> TRUE, lat |-> 13, lon |-> 80,
          display |-> SelectSeq(<<r.name, "", r.country>>, LAMBDA p : p # "")]
    ELSE [called |-> TRUE, found |-> FALSE, lat |-> 0, lon |-> 0, display |-> <<>>]

\* line 131: if city_query.strip() and OWM_KEY
WantGeo(q, key) == Strip(q) # "" /\ Truthy(key)

\* (variant) the IP lookup used only when the query is blank
NeedIpBlankOnly(q, target) == Strip(q) = ""

\* line 138: if (not city_query.strip()) or (not target_city)
NeedIp(q, target) == Strip(q) = "" \/ target = <<>>

VARIABLES
    OWM_KEY,      \* the API key read from the secrets
    city_query,   \* the sidebar text input
    geoCache,     \* st.cache_data of geocode_city, by city (NoGeo: no entry)
    ipCache,      \* st.cache_data of ip_lookup (NoIp: no entry)
    ran,          \* the script has run and built the map
    target_city,  \* as the marker popup shows it
    lat, lon,     \* the map centre
    coordSrc,     \* history: "init" (line 129), "geo" (line 134) or "ip" (line 141)
    geoRet,       \* what geocode_city returned in this run (NoGeo: not called)
    ipRet,        \* what ip_lookup returned in this run (NoIp: not called)
    ipReq         \* the response ip_lookup's body saw in this run, if it ran

homeVars == <<OWM_KEY, city_query, geoCache, ipCache, ran, target_city, lat, lon,
              coordSrc, geoRet, ipRet, ipReq>>

\* home.py 127-153: one run of the script with the text input holding q.
\* gr and ir are the answers the two services give if they are asked.
ScriptRun(q, gr, ir) ==
    LET city == Strip(q)
        geo  == IF ~WantGeo(q, OWM_KEY) THEN NoGeo
                ELSE IF geoCache[city].called THEN geoCache[city]
                ELSE geocode_city(gr)
        tc1  == IF geo.called /\ geo.found THEN geo.display ELSE <<>>
        useIp == NeedIp(q, tc1)
        ip   == IF ~useIp THEN NoIp
                ELSE IF ipCache.called THEN ipCache
                ELSE ip_lookup(ir)
    IN  /\ city_query' = q
        /\ geoRet' = geo
        /\ geoCache' = IF geo.called THEN [geoCache EXCEPT ![city] = geo] ELSE geoCache
        /\ ipRet' = ip
        /\ ipReq' = IF useIp /\ ~ipCache.called THEN ir ELSE NoIpRequest
        /\ ipCache' = IF ip.called THEN ip ELSE ipCache
        /\ lat' = IF useIp THEN ip.lat ELSE IF geo.called /\ geo.found THEN geo.lat ELSE 20
        /\ lon' = IF useIp THEN ip.lon ELSE IF geo.called /\ geo.found THEN geo.lon ELSE 0
        /\ coordSrc' = IF useIp THEN "ip"
                       ELSE IF geo.called /\ geo.found THEN "geo" ELSE "init"
        /\ target_city' = IF useIp THEN (IF tc1 # <<>> THEN tc1 ELSE ip.city) ELSE tc1
        /\ ran' = TRUE
        /\ UNCHANGED OWM_KEY

\* ttl=300 elapses, or lines 211-213 clear the caches
ExpireCaches ==
    /\ ipCache.called \/ \E c \in Cities : geoCache[c].called
    /\ ipCache' = NoIp
    /\ geoCache' = [c \in Cities |-> NoGeo]
    /\ UNCHANGED <<OWM_KEY, city_query, ran, target_city, lat, lon, coordSrc,
                   geoRet, ipRet, ipReq>>

HomeStart(key) ==
    /\ OWM_KEY = key
    /\ city_query = ""
    /\ geoCache = [c \in Cities |-> NoGeo]
    /\ ipCache = NoIp
    /\ ran = FALSE
    /\ target_city = <<>>
    /\ lat = 20
    /\ lon = 0
    /\ coordSrc = "init"
    /\ geoRet = NoGeo
    /\ ipRet = NoIp
    /\ ipReq = NoIpRequest

\* ------------------------------------------------------- specifications
vars == <<runoffVars, homeVars>>

RunoffInit ==
    /\ uploaded = FALSE
    /\ data = NoFile
    /\ method = Methods[1]
    /\ shown = "none"
    /\ result = <<>>
    /\ errKey = ""
    /\ last = NoRun

\* The runoff page.
Init == RunoffInit /\ HomeStart("None")

Next ==
    \/ (\E t \in UploadTables : Upload(t)) /\ UNCHANGED <<last, homeVars>>
    \/ RemoveFile /\ UNCHANGED <<last, homeVars>>
    \/ (\E m \in {MethodSCS, MethodStrange} : SelectMethod(m))
          /\ UNCHANGED <<last, homeVars>>
    \/ CalculateRunoff /\ UNCHANGED <<last, homeVars>>

Spec == Init /\ [][Next]_vars

\* The runoff page with the last displayed run remembered, over complete
\* tables of rows in range.
PairRows == {Row(p, c, 10) : p \in {5, 50}, c \in {70, 80}}
PairTables == TablesOver(AllCols, PairRows, MaxPairRows)

NextPair ==
    \/ (\E t \in PairTables : Upload(t)) /\ Remember /\ UNCHANGED homeVars
    \/ RemoveFile /\ Remember /\ UNCHANGED homeVars
    \/ (\E m \in {MethodSCS, MethodStrange} : SelectMethod(m))
          /\ Remember /\ UNCHANGED homeVars
    \/ CalculateRunoff /\ UNCHANGED <<last, homeVars>>

SpecPair == Init /\ [][NextPair]_vars

\* The home page.
InitHome == RunoffInit /\ \E key \in Keys : HomeStart(key)

NextHome ==
    \/ (\E q \in Queries, gr \in GeoResponses, ir \in IpResponses : ScriptRun(q, gr, ir))
          /\ UNCHANGED runoffVars
    \/ ExpireCaches /\ UNCHANGED runoffVars

SpecHome == InitHome /\ [][NextHome]_vars

\* ------------------------------------------------------------- properties
Complete == data.cols = AllCols
Calculated == shown # "none"
Rows == 1..Len(data.rows)
P(i) == data.rows[i][ColRainfall]
Cn(i) == data.rows[i][ColCN]
A(i) == data.rows[i][ColArea]

\* rainfall > 0, area > 0 and, for the SCS CN method, 0 < CN <= 100
InRange(i, m) ==
    /\ P(i) > 0
    /\ A(i) > 0
    /\ m = MethodSCS => (Cn(i) > 0 /\ Cn(i) <= 100)

\* The retention and the two terms of the SCS CN formula for row i, as reals
Retention(i) == Sub(Div(Num(25400), Num(Cn(i))), Num(254))
Abstraction(i) == Mul(Frac(1, 5), Retention(i))
Denominator(i) == Add(Num(P(i)), Mul(Frac(4, 5), Retention(i)))

\* C1: under the SCS CN method every row with P <= 0.2*S has runoff depth 0
\* and runoff volume 0 (stated for the rows in range).
C1_ClampBelowAbstraction ==
    (shown = "result" /\ method = MethodSCS) =>
        \A i \in Rows :
            (InRange(i, method) /\ Leq(Num(P(i)), Abstraction(i))) =>
                (result[i].runoff = Num(0) /\ result[i].volume = Num(0))

C4_RangeValidation ==
    (Calculated /\ Complete /\ \E i \in Rows : ~InRange(i, method)) =>
        (shown = "error" /\ result = <<>>)

\* C5: under SCS CN a row with P + 0.8*S <= 0 is reported as a row error and
\* left out of the result, and the rest of the batch is computed.
DegenerateRows == {i \in Rows : Leq(Denominator(i), Num(0))}

C5_DivisionGuard ==
    (Calculated /\ Complete /\ method = MethodSCS) =>
        /\ shown = "result"
        /\ Len(RowErrors(data, method)) = Cardinality(DegenerateRows)
        /\ Len(result) = Len(data.rows) - Cardinality(DegenerateRows)

\* C6: under SCS CN, for two rows in range with the same curve number and
\* area, the row with more rainfall has no less runoff.
C6_Monotone ==
    (shown = "result" /\ method = MethodSCS) =>
        \A i, j \in Rows :
            (/\ InRange(i, method) /\ InRange(j, method)
             /\ Cn(i) = Cn(j) /\ A(i) = A(j) /\ P(i) < P(j)) =>
                Leq(result[i].runoff, result[j].runoff)

\* C7: under Strange every computed row has runoff round(P * 0.278, 2) and
\* volume round(P * area * 0.278, 2), whatever the area.
C7_StrangeIdentity ==
    (shown = "result" /\ method = MethodStrange) =>
        \A i \in Rows :
            /\ result[i].runoff = Round2(Mul(Num(P(i)), Frac(139, 500)))
            /\ result[i].volume = Round2(Mul(Num(P(i) * A(i)), Frac(139, 500)))

\* The same identity for the rows whose area is not 0 (it holds of the code).
StrangeIdentityNonZeroArea ==
    (shown = "result" /\ method = MethodStrange) =>
        \A i \in Rows :
            A(i) # 0 =>
                /\ result[i].runoff = Round2(Mul(Num(P(i)), Frac(139, 500)))
                /\ result[i].volume = Round2(Mul(Num(P(i) * A(i)), Frac(139, 500)))

\* C8: result row i echoes input row i's rainfall, in input order; equal
\* rows of one batch get equal results; and a row that two batches under the
\* same method share at position i gets the same result in both.
C8_RowIndependence ==
    shown = "result" =>
        /\ Len(result) = Len(data.rows)
        /\ \A i \in Rows : result[i].rainfall = Num(P(i))
        /\ \A i, j \in Rows : data.rows[i] = data.rows[j] => result[i] = result[j]
        /\ last.method = method =>
              \A i \in Rows \cap (1..Len(last.rows)) :
                  data.rows[i] = last.rows[i] => result[i] = last.result[i]

\* the run before and this one share their second row and differ in the first
C8_Witness ==
    /\ shown = "result"
    /\ last.method = method
    /\ Len(data.rows) = 2
    /\ Len(last.rows) = 2
    /\ data.rows[2] = last.rows[2]
    /\ data.rows[1][ColCN] # last.rows[1][ColCN]
    /\ data.rows # last.rows

WorkedRows == {i \in Rows : data.rows[i] = Row(50, 80, 10)}

\* C9 as claimed: rainfall 50, CN 80, area 10 under SCS CN gives S = 63.5,
\* runoff 13.82 and volume 138200.00.
C9_WorkedExampleAsClaimed ==
    (shown = "result" /\ method = MethodSCS) =>
        \A i \in WorkedRows :
            /\ Retention(i) = Frac(127, 2)
            /\ result[i].runoff = Hundredths(1382)
            /\ result[i].volume = Hundredths(13820000)

\* C9 as amended: the same row gives S = 63.5, runoff 13.80 and volume
\* 138024.80, the volume being the unrounded depth times area times 1000.
C9_WorkedExample ==
    (shown = "result" /\ method = MethodSCS) =>
        \A i \in WorkedRows :
            /\ Retention(i) = Frac(127, 2)
            /\ result[i].rainfall = Num(50)
            /\ result[i].runoff = Hundredths(1380)
            /\ result[i].volume = Hundredths(13802480)

C9_Witness ==
    /\ shown = "result"
    /\ method = MethodSCS
    /\ WorkedRows # {}

\* The centre and the name are the geocoder's, and ip_lookup was not called.
FromGeo ==
    /\ coordSrc = "geo"
    /\ geoRet.called /\ geoRet.found
    /\ lat = geoRet.lat /\ lon = geoRet.lon
    /\ target_city = geoRet.display
    /\ ~ipRet.called

\* The centre and the name are what ip_lookup returned.
FromIp ==
    /\ coordSrc = "ip"
    /\ ipRet.called
    /\ lat = ipRet.lat /\ lon = ipRet.lon
    /\ target_city = ipRet.city

\* The request raised, was not OK, or its payload could not be parsed.
IpFailed(r) ==
    \/ r.kind \in {"raised", "notok", "badjson"}
    \/ r.kind = "ok" /\ r.loc \in {"short", "garbage"}

IpFallback ==
    IpFailed(ipReq) =>
        (ipRet.city = India.city /\ ipRet.lat = India.lat /\ ipRet.lon = India.lon)

\* C10 as claimed: after a run the centre and name are the geocoder's exactly
\* when the query is non-blank, the key is set and geocoding returned a
\* result; otherwise they are ip_lookup's, which falls back to India; the
\* name is never empty and the coordinates of line 129 never reach the map.
C10_ResolutionAsClaimed ==
    ran =>
        /\ FromGeo <=> (Strip(city_query) # "" /\ Truthy(OWM_KEY) /\ geoRet.found)
        /\ ~FromGeo => FromIp
        /\ IpFallback
        /\ target_city # <<>>
        /\ coordSrc # "init"

\* C10 as amended: ... exactly when the query is non-blank, the key is set
\* and geocoding returned a result whose display name is not empty; a result
\* without name, state and country falls back to ip_lookup like a failure.
C10_Resolution ==
    ran =>
        /\ FromGeo <=> (/\ Strip(city_query) # "" /\ Truthy(OWM_KEY)
                        /\ geoRet.found /\ geoRet.display # <<>>)
        /\ ~FromGeo => FromIp
        /\ IpFallback
        /\ target_city # <<>>
        /\ coordSrc # "init"

\* geocoding found coordinates but no name, and the failing IP lookup gave India
C10_Witness ==
    /\ ran
    /\ geoRet.found
    /\ geoRet.display = <<>>
    /\ IpFailed(ipReq)
    /\ target_city = India.city
    /\ lat = India.lat
====
